---- MODULE Spec2Model ----
(***************************************************************************)
(* Haar-like filters over integral images (src/src/haar.rs).               *)
(*                                                                         *)
(* Coordinates are pairs <<x, y>>.  Rust arrays are modelled as sequences, *)
(* so the Rust index i is the sequence index i + 1.                        *)
(***************************************************************************)
EXTENDS Integers, Sequences, FiniteSets

(***************************************************************************)
(* Program constants.                                                      *)
(***************************************************************************)
\* points: [u32; 18]
PointsLen == 18
\* weights: [i8; 9]
WeightsLen == 9
\* EvalPoints holds four points and four weights; for i in 0..4
CornerCount == 4

(***************************************************************************)
(* Bounds of the model.                                                    *)
(***************************************************************************)
\* side of the generated square source images
Dim == 4
\* largest pixel intensity of the generated source images
MaxPix == 1
\* hash seeds 0..MaxSeed: each gives one iteration order of the HashMap
MaxSeed == 1
\* longest slice handed to combine_alternating directly
MaxRects == 3
\* largest left coordinate of a rectangle handed to combine_alternating directly
MaxLeft == 4

Seeds == 0..MaxSeed

(***************************************************************************)
(* Source images and their integral images.                                *)
(***************************************************************************)
\* the 5x5 image of test_two_region_horizontal, row by row
ReferenceImage ==
  [w |-> 5, h |-> 5,
   px |-> << <<1, 2, 3, 4, 5>>,
             <<6, 7, 8, 9, 0>>,
             <<9, 8, 7, 6, 5>>,
             <<4, 3, 2, 1, 0>>,
             <<6, 5, 4, 2, 1>> >>]

Pixel(img, x, y) == img.px[y + 1][x + 1]

RECURSIVE SumOver(_, _)
\* the sum of f over the finite set S
SumOver(S, f) ==
  IF S = {} THEN 0
  ELSE LET e == CHOOSE e \in S : TRUE
       IN  f[e] + SumOver(S \ {e}, f)

\* integral_image: I(x, y) is the sum of the pixels at coordinates <= (x, y)
IntegralImage(img) ==
  [p \in (0..(img.w - 1)) \X (0..(img.h - 1)) |->
     SumOver((0..p[1]) \X (0..p[2]),
             [q \in (0..p[1]) \X (0..p[2]) |-> Pixel(img, q[1], q[2])])]

\* GenericImage::get_pixel(x, y)[0] on the integral image
GetPixel(integral, x, y) == integral[<<x, y>>]

(***************************************************************************)
(* struct EvalPoints, eval_points.                                         *)
(***************************************************************************)
EvalPointsNew(points, weights) == [points |-> points, weights |-> weights]

\* eval_points with the bottom-left corner added instead of subtracted
EvalPointsBottomLeftPlus(top, left, width, height) ==
  EvalPointsNew(
    << IF top > 0 /\ left > 0 THEN <<left - 1, top - 1>> ELSE <<0, 0>>,
       IF top > 0 THEN <<left + width - 1, top - 1>> ELSE <<0, 0>>,
       IF left > 0 THEN <<left - 1, top + height - 1>> ELSE <<0, 0>>,
       <<left + width - 1, top + height - 1>> >>,
    << IF top > 0 /\ left > 0 THEN 1 ELSE 0,
       IF top > 0 THEN -1 ELSE 0,
       IF left > 0 THEN 1 ELSE 0,
       1 >>)

\* eval_points that never adds the top-left corner back
EvalPointsNoTopLeft(top, left, width, height) ==
  EvalPointsNew(
    << <<0, 0>>,
       IF top > 0 THEN <<left + width - 1, top - 1>> ELSE <<0, 0>>,
       IF left > 0 THEN <<left - 1, top + height - 1>> ELSE <<0, 0>>,
       <<left + width - 1, top + height - 1>> >>,
    << 0,
       IF top > 0 THEN -1 ELSE 0,
       IF left > 0 THEN -1 ELSE 0,
       1 >>)

EvalPoints(top, left, width, height) ==
  LET points0  == << <<0, 0>>, <<0, 0>>, <<0, 0>>,
                     <<left + width - 1, top + height - 1>> >>
      weights0 == <<0, 0, 0, 1>>
      points1  == IF top > 0 /\ left > 0
                  THEN [points0 EXCEPT ![1] = <<left - 1, top - 1>>] ELSE points0
      weights1 == IF top > 0 /\ left > 0
                  THEN [weights0 EXCEPT ![1] = 1] ELSE weights0
      points2  == IF top > 0
                  THEN [points1 EXCEPT ![2] = <<left + width - 1, top - 1>>] ELSE points1
      weights2 == IF top > 0
                  THEN [weights1 EXCEPT ![2] = -1] ELSE weights1
      points3  == IF left > 0
                  THEN [points2 EXCEPT ![3] = <<left - 1, top + height - 1>>] ELSE points2
      weights3 == IF left > 0
                  THEN [weights2 EXCEPT ![3] = -1] ELSE weights2
  IN  EvalPointsNew(points3, weights3)

(***************************************************************************)
(* struct HaarFilter.  panicked marks a call that did not return.          *)
(***************************************************************************)
ZeroFilter ==
  [points   |-> [i \in 1..PointsLen |-> 0],
   weights  |-> [i \in 1..WeightsLen |-> 0],
   count    |-> 0,
   panicked |-> FALSE]

\* index out of bounds: the call unwinds and returns no filter
Panicked == [ZeroFilter EXCEPT !.panicked = TRUE]

(***************************************************************************)
(* combine_alternating.  The HashMap is a sequence of <<key, weight>>      *)
(* entries, one per key; its iteration order depends on the hash seed.     *)
(***************************************************************************)
RECURSIVE IndexOfKey(_, _, _)
IndexOfKey(acc, key, i) ==
  IF i > Len(acc) THEN 0
  ELSE IF acc[i][1] = key THEN i
  ELSE IndexOfKey(acc, key, i + 1)

\* *acc.entry(key).or_insert(0) += delta
EntryAdd(acc, key, delta) ==
  LET i == IndexOfKey(acc, key, 1)
  IN  IF i = 0 THEN Append(acc, <<key, 0 + delta>>)
      ELSE [acc EXCEPT ![i] = <<key, acc[i][2] + delta>>]

RECURSIVE FoldRect(_, _, _, _)
\* for i in 0..4 { *acc.entry(rect.points[i]).or_insert(0) += sign * rect.weights[i] }
FoldRect(acc, rect, sign, i) ==
  IF i > CornerCount THEN acc
  ELSE FoldRect(EntryAdd(acc, rect.points[i], sign * rect.weights[i]), rect, sign, i + 1)

RECURSIVE FoldSameSign(_, _, _, _)
\* the fold without sign *= -1
FoldSameSign(acc, rects, sign, k) ==
  IF k > Len(rects) THEN acc
  ELSE FoldSameSign(FoldRect(acc, rects[k], sign, 1), rects, sign, k + 1)

RECURSIVE Fold(_, _, _, _)
\* rects.iter().fold(HashMap::new(), ...) with sign *= -1 after each rect
Fold(acc, rects, sign, k) ==
  IF k > Len(rects) THEN acc
  ELSE Fold(FoldRect(acc, rects[k], sign, 1), rects, sign * (-1), k + 1)

Reverse(s) == [i \in 1..Len(s) |-> s[Len(s) + 1 - i]]

Rotate(s, r) ==
  IF Len(s) = 0 THEN s
  ELSE [i \in 1..Len(s) |-> s[((i - 1 + r) % Len(s)) + 1]]

\* HashMap::into_iter: an order of the entries that the seed decides
IntoIter(acc, seed) ==
  IF seed % 2 = 1 THEN Reverse(Rotate(acc, seed \div 2))
  ELSE Rotate(acc, seed \div 2)

\* the pipeline without the filter
FilterKeepAll(entries) == entries

\* .filter(|kv| kv.1 != 0)
FilterNonZero(entries) == SelectSeq(entries, LAMBDA kv : kv[2] # 0)

\* the comparison on (x, y) instead of (y, x)
CmpLessXY(a, b) ==
  \/ a[1][1] < b[1][1]
  \/ a[1][1] = b[1][1] /\ a[1][2] < b[1][2]

\* Ord::cmp(&((a.0).1, (a.0).0), &((b.0).1, (b.0).0)) == Less
CmpLess(a, b) ==
  \/ a[1][2] < b[1][2]
  \/ a[1][2] = b[1][2] /\ a[1][1] < b[1][1]

RECURSIVE InsertSorted(_, _)
\* insert e after the last element that is not greater than it (a stable sort)
InsertSorted(s, e) ==
  IF Len(s) = 0 THEN <<e>>
  ELSE IF CmpLess(e, s[Len(s)])
       THEN Append(InsertSorted(SubSeq(s, 1, Len(s) - 1), e), s[Len(s)])
       ELSE Append(s, e)

RECURSIVE SortFrom(_, _, _)
SortFrom(done, entries, i) ==
  IF i > Len(entries) THEN done
  ELSE SortFrom(InsertSorted(done, entries[i]), entries, i + 1)

\* the pipeline without the sort
SortedByNone(entries) == entries

\* .sorted_by(...)
SortedBy(entries) == SortFrom(<<>>, entries, 1)

\* the loop that stops writing, instead of failing, once the storage is full
PackStepDrop(f, pw) ==
  IF 2 * f.count + 1 >= PointsLen \/ f.count >= WeightsLen
  THEN f
  ELSE [f EXCEPT !.points[2 * f.count + 1] = pw[1][1],
                 !.points[2 * f.count + 2] = pw[1][2],
                 !.weights[f.count + 1]    = pw[2],
                 !.count                   = f.count + 1]

\* one round of  for pw in sorted_points { ... }: every array write is bounds-checked
PackStep(f, pw) ==
  IF f.panicked THEN f
  ELSE IF 2 * f.count + 1 >= PointsLen \/ f.count >= WeightsLen
       THEN Panicked
       ELSE [f EXCEPT !.points[2 * f.count + 1] = pw[1][1],
                      !.points[2 * f.count + 2] = pw[1][2],
                      !.weights[f.count + 1]    = pw[2],
                      !.count                   = f.count + 1]

RECURSIVE Pack(_, _, _)
Pack(f, sorted, i) ==
  IF i > Len(sorted) THEN f
  ELSE Pack(PackStep(f, sorted[i]), sorted, i + 1)

SortedPoints(rects, seed) ==
  SortedBy(FilterNonZero(IntoIter(Fold(<<>>, rects, 1, 1), seed)))

CombineAlternating(rects, seed) == Pack(ZeroFilter, SortedPoints(rects, seed), 1)

(***************************************************************************)
(* multiplier, impl Mul<i8> for HaarFilter.                                *)
(***************************************************************************)
\* multiplier that ignores the sign
MultiplierOne(sign) == 1

Multiplier(sign) == IF sign = "Positive" THEN 1 ELSE -1

Mul(f, rhs) ==
  IF f.panicked THEN f
  ELSE [f EXCEPT !.weights = [i \in 1..WeightsLen |-> f.weights[i] * rhs]]

(***************************************************************************)
(* The five shape builders.                                                *)
(***************************************************************************)
\* Each builder's rectangles <<top, left, width, height>>, in the order it passes
\* them to eval_points and on to combine_alternating.
TwoRegionHorizontalRects(top, left, dx1, dx2, dy) ==
  << <<top, left,       dx1, dy>>,
     <<top, left + dx1, dx2, dy>> >>

TwoRegionVerticalRects(top, left, dx, dy1, dy2) ==
  << <<top,       left, dx, dy1>>,
     <<top + dy1, left, dx, dy2>> >>

ThreeRegionHorizontalRects(top, left, dx1, dx2, dx3, dy) ==
  << <<top, left,             dx1, dy>>,
     <<top, left + dx1,       dx2, dy>>,
     <<top, left + dx1 + dx2, dx3, dy>> >>

ThreeRegionVerticalRects(top, left, dx, dy1, dy2, dy3) ==
  << <<top,             left, dx, dy1>>,
     <<top + dy1,       left, dx, dy2>>,
     <<top + dy1 + dy2, left, dx, dy3>> >>

FourRegionRects(top, left, dx1, dx2, dy1, dy2) ==
  << <<top,       left,       dx1, dy1>>,
     <<top,       left + dx1, dx2, dy1>>,
     <<top + dy1, left,       dx1, dy2>>,
     <<top + dy1, left + dx1, dx2, dy2>> >>

\* &[eval_points(..), eval_points(..), ...]
EvalPointsOf(geoms) ==
  [k \in 1..Len(geoms) |-> EvalPoints(geoms[k][1], geoms[k][2], geoms[k][3], geoms[k][4])]

\* combine_alternating(&[...]) * multiplier(sign)
Build(geoms, sign, seed) ==
  Mul(CombineAlternating(EvalPointsOf(geoms), seed), Multiplier(sign))

(***************************************************************************)
(* HaarFilter::evaluate.                                                   *)
(***************************************************************************)
RECURSIVE EvaluateFrom(_, _, _, _)
EvaluateFrom(f, integral, i, sum) ==
  IF i >= f.count THEN sum
  ELSE EvaluateFrom(f, integral, i + 1,
         sum + GetPixel(integral, f.points[2 * i + 1], f.points[2 * i + 2])
               * f.weights[i + 1])

\* the loop started at 1 instead of 0
EvaluateSkipFirst(f, integral) == EvaluateFrom(f, integral, 1, 0)

Evaluate(f, integral) == EvaluateFrom(f, integral, 0, 0)

(***************************************************************************)
(* Inputs of the model.                                                    *)
(***************************************************************************)
Signs == {"Positive", "Negative"}

ConstantImage(w, h, v) ==
  [w |-> w, h |-> h, px |-> [y \in 1..h |-> [x \in 1..w |-> v]]]

\* intensity v at (x0, y0), 0 elsewhere
ImpulseImage(w, h, x0, y0, v) ==
  [w |-> w, h |-> h,
   px |-> [y \in 1..h |-> [x \in 1..w |->
             IF x = x0 + 1 /\ y = y0 + 1 THEN v ELSE 0]]]

\* a different intensity at every pixel
RampImage(w, h) ==
  [w |-> w, h |-> h, px |-> [y \in 1..h |-> [x \in 1..w |-> x + w * (y - 1)]]]

\* the images the shape builders are evaluated on
Images ==
  {ReferenceImage}
    \cup {ConstantImage(Dim, Dim, v) : v \in 1..MaxPix}
    \cup {ImpulseImage(Dim, Dim, p[1], p[2], MaxPix) :
            p \in (0..(Dim - 1)) \X (0..(Dim - 1))}

\* rows of the rectangles handed to combine_alternating directly: the first row
\* (clipped at the top edge) and the second (with all four corners)
Tops == {0, 1}

StripW == MaxLeft + 1
StripH == Cardinality(Tops)

\* the images the direct combinations are evaluated on
StripImages ==
  {ConstantImage(StripW, StripH, v) : v \in 1..MaxPix}
    \cup {RampImage(StripW, StripH)}

\* the rectangle lies wholly inside the image
Contained(img, top, left, width, height) ==
  /\ width >= 1 /\ height >= 1
  /\ left + width <= img.w
  /\ top + height <= img.h

NoCall ==
  [fn |-> "none", top |-> 0, left |-> 0, ext |-> <<>>, sign |-> "Positive",
   geoms |-> <<>>]

(***************************************************************************)
(* State.                                                                  *)
(***************************************************************************)
VARIABLES
  image,     \* the source image
  integral,  \* integral_image(&image)
  call,      \* the function called last, its arguments and the rectangles
             \* <<top, left, width, height>> it passed to eval_points
  rects,     \* the EvalPoints the call built or was given
  filter,    \* the HaarFilter returned (panicked: the call did not return)
  value,     \* the result of evaluate
  pc         \* "idle", "points", "built", "listing", "listed", "combined",
             \* "evaluated"

vars == <<image, integral, call, rects, filter, value, pc>>

Init ==
  /\ image \in Images
  /\ integral = IntegralImage(image)
  /\ call = NoCall
  /\ rects = <<>>
  /\ filter = ZeroFilter
  /\ value = 0
  /\ pc = "idle"

Built(fn, top, left, ext, sign, geoms, s) ==
  /\ call' = [fn |-> fn, top |-> top, left |-> left, ext |-> ext, sign |-> sign,
              geoms |-> geoms]
  /\ rects' = EvalPointsOf(geoms)
  /\ filter' = Build(geoms, sign, s)
  /\ pc' = "built"
  /\ UNCHANGED <<image, integral, value>>

Extents == 1..(IF image.w > image.h THEN image.w ELSE image.h)
Anchors == 0..(IF image.w > image.h THEN image.w ELSE image.h)

\* eval_points(top, left, width, height)
CallEvalPoints ==
  /\ pc = "idle"
  /\ \E top \in Anchors, left \in Anchors, width \in Extents, height \in Extents :
       /\ Contained(image, top, left, width, height)
       /\ call' = [fn |-> "eval_points", top |-> top, left |-> left,
                   ext |-> <<width, height>>, sign |-> "Positive",
                   geoms |-> << <<top, left, width, height>> >>]
       /\ rects' = <<EvalPoints(top, left, width, height)>>
  /\ pc' = "points"
  /\ UNCHANGED <<image, integral, filter, value>>

\* HaarFilter::two_region_horizontal(top, left, dx1, dx2, dy, sign)
CallTwoRegionHorizontal ==
  /\ pc = "idle"
  /\ \E top \in Anchors, left \in Anchors, dx1 \in Extents, dx2 \in Extents,
        dy \in Extents, sign \in Signs, s \in Seeds :
       /\ Contained(image, top, left, dx1 + dx2, dy)
       /\ Built("two_region_horizontal", top, left, <<dx1, dx2, dy>>, sign,
                TwoRegionHorizontalRects(top, left, dx1, dx2, dy), s)

\* HaarFilter::two_region_vertical(top, left, dx, dy1, dy2, sign)
CallTwoRegionVertical ==
  /\ pc = "idle"
  /\ \E top \in Anchors, left \in Anchors, dx \in Extents, dy1 \in Extents,
        dy2 \in Extents, sign \in Signs, s \in Seeds :
       /\ Contained(image, top, left, dx, dy1 + dy2)
       /\ Built("two_region_vertical", top, left, <<dx, dy1, dy2>>, sign,
                TwoRegionVerticalRects(top, left, dx, dy1, dy2), s)

\* HaarFilter::three_region_horizontal(top, left, dx1, dx2, dx3, dy, sign)
CallThreeRegionHorizontal ==
  /\ pc = "idle"
  /\ \E top \in Anchors, left \in Anchors, dx1 \in Extents, dx2 \in Extents,
        dx3 \in Extents, dy \in Extents, sign \in Signs, s \in Seeds :
       /\ Contained(image, top, left, dx1 + dx2 + dx3, dy)
       /\ Built("three_region_horizontal", top, left, <<dx1, dx2, dx3, dy>>, sign,
                ThreeRegionHorizontalRects(top, left, dx1, dx2, dx3, dy), s)

\* HaarFilter::three_region_vertical(top, left, dx, dy1, dy2, dy3, sign)
CallThreeRegionVertical ==
  /\ pc = "idle"
  /\ \E top \in Anchors, left \in Anchors, dx \in Extents, dy1 \in Extents,
        dy2 \in Extents, dy3 \in Extents, sign \in Signs, s \in Seeds :
       /\ Contained(image, top, left, dx, dy1 + dy2 + dy3)
       /\ Built("three_region_vertical", top, left, <<dx, dy1, dy2, dy3>>, sign,
                ThreeRegionVerticalRects(top, left, dx, dy1, dy2, dy3), s)

\* HaarFilter::four_region(top, left, dx1, dx2, dy1, dy2, sign)
CallFourRegion ==
  /\ pc = "idle"
  /\ \E top \in Anchors, left \in Anchors, dx1 \in Extents, dx2 \in Extents,
        dy1 \in Extents, dy2 \in Extents, sign \in Signs, s \in Seeds :
       /\ Contained(image, top, left, dx1 + dx2, dy1 + dy2)
       /\ Built("four_region", top, left, <<dx1, dx2, dy1, dy2>>, sign,
                FourRegionRects(top, left, dx1, dx2, dy1, dy2), s)

\* filter.evaluate(&integral)
CallEvaluate ==
  /\ pc = "built"
  /\ ~filter.panicked
  /\ value' = Evaluate(filter, integral)
  /\ pc' = "evaluated"
  /\ UNCHANGED <<image, integral, call, rects, filter>>

Next ==
  \/ CallEvalPoints
  \/ CallTwoRegionHorizontal
  \/ CallTwoRegionVertical
  \/ CallThreeRegionHorizontal
  \/ CallThreeRegionVertical
  \/ CallFourRegion
  \/ CallEvaluate

Spec == Init /\ [][Next]_vars

(***************************************************************************)
(* Direct use of combine_alternating, as in test_combine_alternating: a    *)
(* slice of EvalPoints is put together, combined, and the filter evaluated. *)
(***************************************************************************)
InitCombine ==
  /\ image = ConstantImage(StripW, StripH, 0)
  /\ integral = IntegralImage(image)
  /\ call = [NoCall EXCEPT !.fn = "combine_alternating"]
  /\ rects = <<>>
  /\ filter = ZeroFilter
  /\ value = 0
  /\ pc = "listing"

\* one more single-pixel rectangle: eval_points(top, left, 1, 1)
PushRect ==
  /\ pc = "listing"
  /\ Len(rects) < MaxRects
  /\ \E top \in Tops, left \in 0..MaxLeft :
       /\ Contained(image, top, left, 1, 1)
       /\ call' = [call EXCEPT !.geoms = Append(@, <<top, left, 1, 1>>)]
       /\ rects' = Append(rects, EvalPoints(top, left, 1, 1))
  /\ UNCHANGED <<image, integral, filter, value, pc>>

ShapeRects(img) ==
  LET A == 0..img.w
      E == 1..img.w
  IN  {TwoRegionHorizontalRects(t, l, a, b, c) : t \in Tops, l \in A, a \in E, b \in E, c \in E}
        \cup {TwoRegionVerticalRects(t, l, a, b, c) : t \in Tops, l \in A, a \in E, b \in E, c \in E}
        \cup {ThreeRegionHorizontalRects(t, l, a, b, c, 1) : t \in Tops, l \in A, a \in E, b \in E, c \in E}
        \cup {FourRegionRects(0, l, a, b, 1, 1) : l \in A, a \in E, b \in E}

\* the rectangles of one of the shapes, as a builder lists them
PushShape ==
  /\ pc = "listing"
  /\ rects = <<>>
  /\ \E geoms \in ShapeRects(image) :
       /\ \A k \in 1..Len(geoms) :
            Contained(image, geoms[k][1], geoms[k][2], geoms[k][3], geoms[k][4])
       /\ call' = [call EXCEPT !.geoms = geoms]
       /\ rects' = EvalPointsOf(geoms)
  /\ pc' = "listed"
  /\ UNCHANGED <<image, integral, filter, value>>

\* combine_alternating(&rects)
CallCombineAlternating ==
  /\ pc \in {"listing", "listed"}
  /\ \E s \in Seeds : filter' = CombineAlternating(rects, s)
  /\ pc' = "combined"
  /\ UNCHANGED <<image, integral, call, rects, value>>

\* let integral = integral_image(&image); filter.evaluate(&integral)
CallEvaluateOn ==
  /\ pc = "combined"
  /\ ~filter.panicked
  /\ \E img \in StripImages :
       /\ image' = img
       /\ integral' = IntegralImage(img)
       /\ value' = Evaluate(filter, IntegralImage(img))
  /\ pc' = "evaluated"
  /\ UNCHANGED <<call, rects, filter>>

NextCombine ==
  \/ PushRect
  \/ PushShape
  \/ CallCombineAlternating
  \/ CallEvaluateOn

SpecCombine == InitCombine /\ [][NextCombine]_vars

(***************************************************************************)
(* Vocabulary of the properties.                                           *)
(***************************************************************************)
Returned == pc \in {"built", "evaluated"} /\ call.fn \notin {"none", "combine_alternating"}

ActivePoints(f)  == [i \in 1..f.count |-> <<f.points[2 * i - 1], f.points[2 * i]>>]
ActiveWeights(f) == [i \in 1..f.count |-> f.weights[i]]

\* the points <<xs[i], ys[j]>> row by row
RowMajor(xs, ys) ==
  [k \in 1..(Len(xs) * Len(ys)) |->
     <<xs[((k - 1) % Len(xs)) + 1], ys[((k - 1) \div Len(xs)) + 1]>>]

\* the sum of the pixels of the rectangle, straight from the source image
BlockSum(img, top, left, width, height) ==
  LET S == (left..(left + width - 1)) \X (top..(top + height - 1))
  IN  SumOver(S, [q \in S |-> Pixel(img, q[1], q[2])])

\* the integral image with a zero row and column at -1
Padded(x, y) == IF x < 0 \/ y < 0 THEN 0 ELSE integral[<<x, y>>]

\* a < b in (y, x) order
PointLess(a, b) == a[2] < b[2] \/ (a[2] = b[2] /\ a[1] < b[1])

Interior == call.top >= 1 /\ call.left >= 1

\* C1: for an interior anchor and Sign::Positive, four_region returns the 9 points
\* of the 3x3 corner grid, row-major, with weights [1,-2,1,-2,4,-2,1,-2,1].
C1_FourRegionNinePoints ==
  (Returned /\ call.fn = "four_region" /\ Interior /\ call.sign = "Positive") =>
     LET t == call.top
         l == call.left
         e == call.ext
     IN  /\ ~filter.panicked
         /\ filter.count = 9
         /\ ActivePoints(filter) =
              RowMajor(<<l - 1, l + e[1] - 1, l + e[1] + e[2] - 1>>,
                       <<t - 1, t + e[3] - 1, t + e[3] + e[4] - 1>>)
         /\ ActiveWeights(filter) = <<1, -2, 1, -2, 4, -2, 1, -2, 1>>

\* the corner grid of a two- or three-region shape
ShapeGrid ==
  LET t == call.top
      l == call.left
      e == call.ext
  IN  CASE call.fn = "two_region_horizontal" ->
             RowMajor(<<l - 1, l + e[1] - 1, l + e[1] + e[2] - 1>>,
                      <<t - 1, t + e[3] - 1>>)
        [] call.fn = "two_region_vertical" ->
             RowMajor(<<l - 1, l + e[1] - 1>>,
                      <<t - 1, t + e[2] - 1, t + e[2] + e[3] - 1>>)
        [] call.fn = "three_region_horizontal" ->
             RowMajor(<<l - 1, l + e[1] - 1, l + e[1] + e[2] - 1,
                        l + e[1] + e[2] + e[3] - 1>>,
                      <<t - 1, t + e[4] - 1>>)
        [] call.fn = "three_region_vertical" ->
             RowMajor(<<l - 1, l + e[1] - 1>>,
                      <<t - 1, t + e[2] - 1, t + e[2] + e[3] - 1,
                        t + e[2] + e[3] + e[4] - 1>>)

\* the documented closed form of a two- or three-region shape
ShapeWeights ==
  CASE call.fn = "two_region_horizontal"   -> <<1, -2, 1, -1, 2, -1>>
    [] call.fn = "two_region_vertical"     -> <<1, -1, -2, 2, 1, -1>>
    [] call.fn = "three_region_horizontal" -> <<1, -2, 2, -1, -1, 2, -2, 1>>
    [] call.fn = "three_region_vertical"   -> <<1, -1, -2, 2, 2, -2, -1, 1>>

TwoOrThree ==
  call.fn \in {"two_region_horizontal", "two_region_vertical",
               "three_region_horizontal", "three_region_vertical"}

\* C2: for an interior anchor and Sign::Positive, each two- and three-region builder
\* returns exactly the corner grid of its shape, row-major, with the documented
\* weights (6 points for two regions, 8 for three).
C2_ClosedForms ==
  (Returned /\ TwoOrThree /\ Interior /\ call.sign = "Positive") =>
     /\ ~filter.panicked
     /\ filter.count = Len(ShapeWeights)
     /\ ActivePoints(filter) = ShapeGrid
     /\ ActiveWeights(filter) = ShapeWeights

C2_Witness ==
  /\ Returned /\ Interior /\ call.sign = "Positive"
  /\ call.fn = "three_region_vertical"
  /\ call.ext = <<2, 1, 2, 1>>
  /\ filter.count = 8

\* C3: a Positive two_region_horizontal filter whose blocks lie inside the image
\* evaluates, on the integral image, to the pixel sum of the left block minus the
\* pixel sum of the right block, also for top = 0 or left = 0; the reference image
\* with top=1, left=1, dx1=2, dx2=1, dy=3 gives 19.
C3_TwoRegionHorizontalValue ==
  (pc = "evaluated" /\ call.fn = "two_region_horizontal" /\ call.sign = "Positive") =>
     /\ value = BlockSum(image, call.top, call.left, call.ext[1], call.ext[3])
                  - BlockSum(image, call.top, call.left + call.ext[1],
                             call.ext[2], call.ext[3])
     /\ (image = ReferenceImage /\ call.top = 1 /\ call.left = 1
           /\ call.ext = <<2, 1, 3>>) => value = 19

C3_Witness ==
  /\ pc = "evaluated" /\ call.fn = "two_region_horizontal" /\ call.sign = "Positive"
  /\ image = ReferenceImage /\ call.top = 1 /\ call.left = 1 /\ call.ext = <<2, 1, 3>>
  /\ value = 19

\* the same call with the other sign
Opposite ==
  Build(call.geoms, IF call.sign = "Positive" THEN "Negative" ELSE "Positive", 0)

\* C4: for each builder and geometry, the Negative and the Positive filter have the
\* same count and the same points in the same order, every weight of one is the
\* negation of the other's, and their values on an integral image are opposite.
C4_SignInversion ==
  Returned =>
     /\ ~filter.panicked /\ ~Opposite.panicked
     /\ Opposite.count = filter.count
     /\ Opposite.points = filter.points
     /\ \A i \in 1..WeightsLen : Opposite.weights[i] = -filter.weights[i]
     /\ pc = "evaluated" => Evaluate(Opposite, integral) = -value

C4_Witness ==
  /\ pc = "evaluated" /\ call.fn = "four_region" /\ call.sign = "Negative"
  /\ value # 0

\* C5: every filter a builder returns, for any anchor (0 included), extents and
\* sign, has 0 <= count <= 9, no zero weight among the active pairs, and active
\* coordinates strictly ascending in (y, x) order.
C5_CanonicalForm ==
  Returned =>
     /\ ~filter.panicked
     /\ filter.count \in 0..9
     /\ \A i \in 1..filter.count : filter.weights[i] # 0
     /\ \A i \in 1..(filter.count - 1) :
          PointLess(ActivePoints(filter)[i], ActivePoints(filter)[i + 1])
     /\ \A i, j \in 1..filter.count :
          i # j => ActivePoints(filter)[i] # ActivePoints(filter)[j]

C5_Witness ==
  /\ Returned /\ call.fn = "three_region_horizontal" /\ call.sign = "Negative"
  /\ call.top = 0 /\ call.left = 0
  /\ filter.count = 3

\* C7: eval_points returns the bottom-right corner with weight +1, the top-left
\* with +1 only if top > 0 and left > 0, the top-right with -1 only if top > 0, the
\* bottom-left with -1 only if left > 0, and (0,0) with weight 0 for each omitted
\* corner; the weighted sum of the four lookups equals the inclusion-exclusion
\* formula on the integral image padded with zeros at row and column -1.
C7_EvalPoints ==
  pc = "points" =>
     LET t  == call.top
         l  == call.left
         w  == call.ext[1]
         h  == call.ext[2]
         ep == rects[1]
     IN  /\ ep.points[4] = <<l + w - 1, t + h - 1>> /\ ep.weights[4] = 1
         /\ IF t > 0 /\ l > 0
            THEN ep.points[1] = <<l - 1, t - 1>> /\ ep.weights[1] = 1
            ELSE ep.points[1] = <<0, 0>> /\ ep.weights[1] = 0
         /\ IF t > 0
            THEN ep.points[2] = <<l + w - 1, t - 1>> /\ ep.weights[2] = -1
            ELSE ep.points[2] = <<0, 0>> /\ ep.weights[2] = 0
         /\ IF l > 0
            THEN ep.points[3] = <<l - 1, t + h - 1>> /\ ep.weights[3] = -1
            ELSE ep.points[3] = <<0, 0>> /\ ep.weights[3] = 0
         /\ SumOver(1..4, [i \in 1..4 |->
                      ep.weights[i] * integral[ep.points[i]]])
              = Padded(l + w - 1, t + h - 1) - Padded(l - 1, t + h - 1)
                  - Padded(l + w - 1, t - 1) + Padded(l - 1, t - 1)

\* the placeholder (0,0) is also the one real lookup
C7_Witness ==
  /\ pc = "points" /\ call.top = 0 /\ call.left = 0 /\ call.ext = <<1, 1>>
  /\ rects[1].points = << <<0, 0>>, <<0, 0>>, <<0, 0>>, <<0, 0>> >>
  /\ rects[1].weights = <<0, 0, 0, 1>>
  /\ integral[<<0, 0>>] > 0

(***************************************************************************)
(* Properties of combine_alternating called directly.                      *)
(***************************************************************************)
\* combine_alternating has been called on rects; filter is its outcome
Combined == pc = "combined"

\* ... and the filter it returned has been evaluated on the image
Evaluated == pc = "evaluated" /\ call.fn = "combine_alternating"

\* +1 for the first set, -1 for the second, +1 for the third, ...
Alternating(k) == IF k % 2 = 1 THEN 1 ELSE -1

\* the sum, over every pair of every set that names p, of Alternating(k) * weight
Accumulated(rs, p) ==
  LET S == {ki \in (1..Len(rs)) \X (1..4) : rs[ki[1]].points[ki[2]] = p}
  IN  SumOver(S, [ki \in S |-> Alternating(ki[1]) * rs[ki[1]].weights[ki[2]]])

Coordinates(rs) == {rs[k].points[i] : k \in 1..Len(rs), i \in 1..4}

NonZeroCoords(rs) == {p \in Coordinates(rs) : Accumulated(rs, p) # 0}

\* the coordinate-to-weight mapping the sets aggregate to
Mapping(rs) == {<<p, Accumulated(rs, p)>> : p \in NonZeroCoords(rs)}

\* the literal alternating sum of the rectangles' own pixel sums
AltSum(img, geoms) ==
  SumOver(1..Len(geoms),
          [k \in 1..Len(geoms) |->
             Alternating(k) * BlockSum(img, geoms[k][1], geoms[k][2],
                                       geoms[k][3], geoms[k][4])])

\* C6 as stated: for any sequence of rectangles inside the image,
\* evaluate(combine_alternating(rects), image) is the alternating sum of the
\* rectangles' pixel sums.
C6_AnySequence ==
  /\ Combined => ~filter.panicked
  /\ Evaluated => value = AltSum(image, call.geoms)

\* C6 as amended: the same, for the sequences whose aggregation leaves at most 9
\* coordinates with non-zero weight.
C6_Linearity ==
  /\ (Combined /\ Cardinality(NonZeroCoords(rects)) <= 9) => ~filter.panicked
  /\ Evaluated => value = AltSum(image, call.geoms)

C6_Witness ==
  /\ Evaluated
  /\ call.geoms = << <<1, 1, 1, 1>>, <<0, 3, 1, 1>>, <<1, 0, 1, 1>> >>
  /\ image = RampImage(StripW, StripH)
  /\ value = (StripW + 2) - 4 + (StripW + 1)

\* rs with the sets at i and j exchanged
Swapped(rs, i, j) == [rs EXCEPT ![i] = rs[j], ![j] = rs[i]]

\* rs without the sets at i and i + 1
Without(rs, i) == SubSeq(rs, 1, i - 1) \o SubSeq(rs, i + 2, Len(rs))

\* other slices built from the same sets: two sets exchanged, or two equal
\* neighbours (which cancel) left out
Variants(rs) ==
  {Swapped(rs, i, j) : i, j \in 1..Len(rs)}
    \cup {Without(rs, i) : i \in {k \in 1..(Len(rs) - 1) : rs[k] = rs[k + 1]}}

\* C8: two slices that aggregate to the same coordinate-to-weight mapping give
\* equal results (count, points, weights, order, unused slots), whatever order
\* the map is iterated in.
C8_Determinism ==
  Combined =>
     \A r2 \in Variants(rects) :
        Mapping(r2) = Mapping(rects) =>
           \A s \in Seeds : CombineAlternating(r2, s) = filter

\* another slice with the same mapping, whose map is iterated in another order
C8_Witness ==
  /\ Combined /\ ~filter.panicked /\ filter.count >= 4
  /\ Len(rects) = 3
  /\ \E r2 \in Variants(rects) :
       /\ r2 # rects
       /\ Mapping(r2) = Mapping(rects)
       /\ \E s \in Seeds :
            FilterNonZero(IntoIter(Fold(<<>>, r2, 1, 1), s))
              # FilterNonZero(IntoIter(Fold(<<>>, rects, 1, 1), 0))

\* the three adjacent unit rectangles of test_combine_alternating
TestRects ==
  << EvalPointsNew(<< <<0, 0>>, <<1, 0>>, <<0, 1>>, <<1, 1>> >>, <<1, -1, -1, 1>>),
     EvalPointsNew(<< <<1, 0>>, <<2, 0>>, <<1, 1>>, <<2, 1>> >>, <<1, -1, -1, 1>>),
     EvalPointsNew(<< <<2, 0>>, <<3, 0>>, <<2, 1>>, <<3, 1>> >>, <<1, -1, -1, 1>>) >>

TestExpected ==
  [points   |-> <<0, 0, 1, 0, 2, 0, 3, 0, 0, 1, 1, 1, 2, 1, 3, 1, 0, 0>>,
   weights  |-> <<1, -2, 2, -1, -1, 2, -2, 1, 0>>,
   count    |-> 8,
   panicked |-> FALSE]

\* C9: with at most 9 coordinates of non-zero accumulated weight, the filter's
\* active pairs are exactly those coordinates, each with its accumulated weight, in
\* ascending (y, x) order, count is their number, and every slot from count on
\* holds point (0,0) and weight 0; the three unit rectangles of the test give
\* count 8 and weights [1,-2,2,-1,-1,2,-2,1].
C9_Canonicalization ==
  (Combined /\ Cardinality(NonZeroCoords(rects)) <= 9) =>
     /\ ~filter.panicked
     /\ filter.count = Cardinality(NonZeroCoords(rects))
     /\ {ActivePoints(filter)[i] : i \in 1..filter.count} = NonZeroCoords(rects)
     /\ \A i \in 1..filter.count :
          filter.weights[i] = Accumulated(rects, ActivePoints(filter)[i])
     /\ \A i \in 1..(filter.count - 1) :
          PointLess(ActivePoints(filter)[i], ActivePoints(filter)[i + 1])
     /\ \A i \in (filter.count + 1)..WeightsLen :
          filter.weights[i] = 0 /\ filter.points[2 * i - 1] = 0 /\ filter.points[2 * i] = 0
     /\ rects = TestRects => filter = TestExpected

C9_Witness ==
  /\ Combined /\ rects = TestRects /\ filter = TestExpected

\* C10: with more than 9 coordinates of non-zero accumulated weight,
\* combine_alternating does not return; a filter that is returned has count <= 9
\* and holds every such coordinate.
C10_TooManyPoints ==
  Combined =>
     /\ Cardinality(NonZeroCoords(rects)) > 9 => filter = Panicked
     /\ ~filter.panicked =>
          /\ filter.count <= 9
          /\ filter.count = Cardinality(NonZeroCoords(rects))

\* three single-pixel rectangles, the first apart from the others: 10 points
C10_Witness ==
  /\ Combined
  /\ call.geoms = << <<1, 1, 1, 1>>, <<1, 3, 1, 1>>, <<1, 4, 1, 1>> >>
  /\ Cardinality(NonZeroCoords(rects)) = 10
  /\ filter = Panicked

====
